---- MODULE Spec2Model ----
(***************************************************************************)
(* State-machine model of the chat-export viewer's core: the conversations *)
(* provider (file load, clear, row selection), the search provider (the    *)
(* generation-gated incremental index build and the corpus query effect)   *)
(* and the chat provider (match location and active-match navigation).     *)
(*                                                                         *)
(* Conventions.                                                            *)
(*  - A JavaScript string is a sequence of one-character strings.          *)
(*  - An optional field (message, create_time, title) is a record field    *)
(*    that may be absent from the record's DOMAIN.                         *)
(*  - A conversations array is held in the state by reference: the state   *)
(*    keeps the key of the loaded document (0 is the empty array) and      *)
(*    Conversations(key) is the array.  A record table built by the index  *)
(*    builder is held the same way, as the pair (document, number of       *)
(*    records set so far); RecordTable gives the Map it stands for.        *)
(*  - One event (a user input, a settled file read, a timer firing) is one *)
(*    action: the state update, the render and every effect that the       *)
(*    update triggers, run until no effect is pending.                     *)
(***************************************************************************)
EXTENDS Integers, Sequences, FiniteSets, TLC

VARIABLES
    conversations,      \* ConversationsProvider: useState conversations (document key)
    fileName,           \* ConversationsProvider: useState fileName
    error,              \* ConversationsProvider: useState error
    loading,            \* ConversationsProvider: useState loading
    selectedIndex,      \* ConversationsProvider: useState selectedIndex
    pending,            \* handleFile calls suspended at `await file.text()`
    query,              \* SearchProvider: useState query
    results,            \* SearchProvider: useState results
    status,             \* SearchProvider: useState status
    setStatusCalls,     \* the arguments of the setStatus calls of the last event
    searchIndexRef,     \* SearchProvider: useRef, the published index
    searchRecordsRef,   \* SearchProvider: useRef, the published record table
    searchBuildIdRef,   \* SearchProvider: useRef, the generation counter
    builds,             \* buildIndex calls suspended at `await setTimeout(0)`
    chatQuery,          \* ChatProvider: useState query
    matches,            \* ChatProvider: useState matches
    activeMatchIndex,   \* ChatProvider: useState activeMatchIndex
    input               \* ChatProvider on its own: the selectedMessages it is
                        \* given, or the selected conversation they are
                        \* extracted from (Null under ConversationsProvider)

vars == <<conversations, fileName, error, loading, selectedIndex, pending,
          query, results, status, searchIndexRef, searchRecordsRef,
          searchBuildIdRef, builds, chatQuery, matches, activeMatchIndex, input,
          setStatusCalls>>

convVars == <<conversations, fileName, error, loading, selectedIndex, pending>>
searchVars == <<query, results, status, searchIndexRef, searchRecordsRef,
                searchBuildIdRef, builds>>
chatVars == <<chatQuery, matches, activeMatchIndex>>

-----------------------------------------------------------------------------
(* Bounds of the model.                                                    *)

\* Cap on the generation counter: the mount runs build 1.
MaxBuilds == 3
\* Cap on the number of file reads in flight at once.
MaxPending == 2
\* Number of mapping nodes of the large conversation of the large document.
BigNodes == 1040
\* ChatProvider on its own: the total text length of a message list and the
\* length of a chat query.
MaxTextLen == 3
MaxQueryLen == 2
\* ChatProvider on one conversation: the number of its mapping nodes.
MaxNodes == 3
\* buildSnippet on its own: the longest run of text before and after the
\* located match.
MaxPad == 61

(* Program constants.                                                      *)
YieldEvery == 500
ResultLimit == 200
SnippetRadius == 60
SnippetFallback == 140

\* null / undefined where an object is expected, where a string is expected
\* and where a number is expected.
Null == [null |-> TRUE]
NullString == "null"
NullNumber == -1

-----------------------------------------------------------------------------
(* Strings.                                                                *)

\* F(v), with v evaluated once however often F uses its argument.
Bind(v, F(_)) == CHOOSE r \in {F(x) : x \in {v}} : TRUE

IsSpace(ch) == ch \in {" ", "\n"}

Lower(ch) == IF ch = "A" THEN "a" ELSE IF ch = "B" THEN "b" ELSE ch

\* A character outside ASCII is written by its code point: the capital I
\* with dot above, whose lower case is the two characters i and combining
\* dot above.
DottedI == "U+0130"
CombiningDot == "U+0307"

\* The lower case of one character: a string of one or two characters.
LowerCase(ch) == IF ch = DottedI THEN <<"i", CombiningDot>> ELSE <<Lower(ch)>>

\* The lower case of s[lo..hi], character by character.
RECURSIVE lowerAll(_, _, _)
lowerAll(s, lo, hi) ==
    IF lo > hi THEN << >>
    ELSE IF lo = hi THEN LowerCase(s[lo])
    ELSE LET mid == (lo + hi) \div 2
         IN  lowerAll(s, lo, mid) \o lowerAll(s, mid + 1, hi)

\* String.prototype.toLowerCase
toLowerCase(s) ==
    Bind(s, LAMBDA t :
        IF \E i \in 1..Len(t) : t[i] = DottedI THEN lowerAll(t, 1, Len(t))
        ELSE [i \in 1..Len(t) |-> Lower(t[i])])

\* String.prototype.trim
span(s, keep) ==
    IF keep = {} THEN <<>>
    ELSE SubSeq(s, CHOOSE i \in keep : \A j \in keep : i <= j,
                   CHOOSE i \in keep : \A j \in keep : j <= i)

trim(s) ==
    Bind(s, LAMBDA t : Bind({i \in 1..Len(t) : ~IsSpace(t[i])},
                            LAMBDA keep : span(t, keep)))

\* String.prototype.slice(from, to) on 0-based offsets 0 <= from <= to <= length
slice(s, from, to) == SubSeq(s, from + 1, to)

\* String.prototype.indexOf(needle, fromIndex): 0-based offset or -1
Least(hits) == IF hits = {} THEN -1 ELSE CHOOSE i \in hits : \A j \in hits : i <= j

\* Mutant: the greatest offset from `from` on is returned (lastIndexOf).
indexOfLast(s, needle, from) ==
    Bind(s, LAMBDA t : Bind(needle, LAMBDA n :
        Bind({i \in from..(Len(t) - Len(n)) : SubSeq(t, i + 1, i + Len(n)) = n},
             LAMBDA hits : IF hits = {} THEN -1
                           ELSE CHOOSE i \in hits : \A j \in hits : j <= i)))

indexOf(s, needle, from) ==
    Bind(s, LAMBDA t : Bind(needle, LAMBDA n :
        Least({i \in from..(Len(t) - Len(n)) : SubSeq(t, i + 1, i + Len(n)) = n})))

\* Array.prototype.join("\n") over parts already coerced by String(part)
RECURSIVE joinParts(_)
joinParts(parts) ==
    IF parts = <<>> THEN <<>>
    ELSE IF Len(parts) = 1 THEN parts[1]
    ELSE parts[1] \o <<"\n">> \o joinParts(Tail(parts))

-----------------------------------------------------------------------------
(* Documents: the conversation arrays the model loads.                     *)

User == <<"u", "s", "e", "r">>
Assistant == <<"a", "s", "s", "i", "s", "t", "a", "n", "t">>
Other == <<"o", "t", "h", "e", "r">>
Untitled == <<"U", "n", "t", "i", "t", "l", "e", "d">>

\* A small conversation: a message, a node without message, a message whose
\* text is empty, a message without author and create_time.
ConvDemo ==
    [ id |-> "c1", title |-> <<"D", "e", "m", "o">>,
      mapping |-> <<
        [ id |-> <<"n", 1>>,
          message |-> [ author |-> [role |-> User], create_time |-> 10,
                        content |-> [parts |-> << <<"A", "b", " ", "a">> >>] ] ],
        [ id |-> <<"n", 2>> ],
        [ id |-> <<"n", 3>>,
          message |-> [ author |-> [role |-> Assistant], create_time |-> 5,
                        content |-> [parts |-> << >>] ] ],
        [ id |-> <<"n", 4>>,
          message |-> [ content |-> [parts |-> << <<" ", "b">>, <<"a", " ">> >>] ] ]
      >> ]

\* A conversation without title.
ConvPlain ==
    [ id |-> "c2",
      mapping |-> <<
        [ id |-> <<"n", 5>>,
          message |-> [ author |-> [role |-> User], create_time |-> 10,
                        content |-> [parts |-> << <<"a", "a", "a">> >>] ] ],
        [ id |-> <<"n", 6>>,
          message |-> [ author |-> [role |-> Assistant], create_time |-> 10,
                        content |-> [parts |-> << <<"b">> >>] ] ]
      >> ]

\* Node i of the large conversation: every 101st node carries no message,
\* nodes 7, 57, 107, ... carry a message with no content parts.
BigNode(i) ==
    IF i % 101 = 0 THEN [ id |-> <<"n", 100 + i>> ]
    ELSE [ id |-> <<"n", 100 + i>>,
           message |->
             [ author |-> [role |-> IF i % 2 = 0 THEN Assistant ELSE User],
               create_time |-> (i % 3) * 5,
               content |-> [parts |-> IF i % 50 = 7 THEN << >>
                                      ELSE IF i % 2 = 0 THEN << <<"b">> >>
                                      ELSE << <<"b", " ", "B">> >>] ] ]

ConvBig ==
    [ id |-> "c3", title |-> <<"B", "i", "g">>,
      mapping |-> SubSeq([i \in 1..BigNodes |-> BigNode(i)], 1, BigNodes) ]

\* Conversations(k): the array held under document key k; key 0 is [].
Docs == << <<ConvDemo, ConvPlain>>, <<ConvPlain, ConvBig>> >>

DocKeys == 0..Len(Docs)

Conversations(k) == IF k = 0 THEN <<>> ELSE Docs[k]

\* The key under which a conversations array is held.
KeyOf(array) == CHOOSE k \in DocKeys : Conversations(k) = array
-----------------------------------------------------------------------------
(* The index builder's loop body (search-context.tsx, buildIndex).         *)

Has(rec, field) == field \in DOMAIN rec

\* parts.map(String).join("\n").trim() of a message
messageText(message) ==
    trim(joinParts(IF Has(message, "content") /\ Has(message.content, "parts")
                   THEN message.content.parts ELSE << >>))

\* Mutant: the test `if (!text) continue` is missing.
IndexedNodesAnyText(mapping) ==
    SelectSeq(mapping, LAMBDA node : Has(node, "message"))

\* The nodes of one mapping that pass `if (!message) continue` and
\* `if (!text) continue`, in iteration order.
IndexedNodes(mapping) ==
    SelectSeq(mapping,
              LAMBDA node : Has(node, "message") /\ messageText(node.message) # << >>)

\* The SearchRecord the loop stores for `node` of conversation cIndex when
\* `count` records were stored before it.
WithCreateTime(base, message) ==
    IF Has(message, "create_time")
    THEN [ f \in DOMAIN base \cup {"createTime"} |->
             IF f = "createTime" THEN message.create_time ELSE base[f] ]
    ELSE base

SearchRecord(conversation, cIndex, node, count) ==
    Bind([ id |-> <<"m", cIndex, count>>,
           conversationIndex |-> cIndex,
           messageId |-> IF Has(node, "id") THEN node.id ELSE <<"m", cIndex, count>>,
           title |-> IF Has(conversation, "title") THEN conversation.title
                     ELSE Untitled,
           role |-> IF Has(node.message, "author") /\ Has(node.message.author, "role")
                    THEN node.message.author.role ELSE Other,
           text |-> messageText(node.message) ],
         LAMBDA base : WithCreateTime(base, node.message))

\* The records a build of `array` stores, in the order it stores them, from
\* conversation cIndex on, `count` records having been stored before.
RECURSIVE RecordsFrom(_, _, _)
RecordsFrom(array, cIndex, count) ==
    IF cIndex >= Len(array) THEN << >>
    ELSE Bind(IndexedNodes(IF Has(array[cIndex + 1], "mapping")
                           THEN array[cIndex + 1].mapping ELSE << >>),
              LAMBDA nodes :
                SubSeq([ j \in 1..Len(nodes) |->
                           SearchRecord(array[cIndex + 1], cIndex, nodes[j], count + j - 1) ],
                       1, Len(nodes))
                  \o RecordsFrom(array, cIndex + 1, count + Len(nodes)))

\* Built[k]: every record a build of document k stores, in order.
Built == << RecordsFrom(Docs[1], 0, 0), RecordsFrom(Docs[2], 0, 0) >>

\* Number of records a complete build of document k stores.
Total(k) == IF k = 0 THEN 0 ELSE Len(Built[k])

\* The builder's local `records` Map after `count` calls of records.set, for
\* a build of document k: a table reference.
TableRef(k, count) == [doc |-> k, count |-> count]

EmptyTable == TableRef(0, 0)

\* The sequence of records.set calls behind a table reference.
Stored(ref) == IF ref.doc = 0 THEN << >> ELSE SubSeq(Built[ref.doc], 1, ref.count)

\* The Map a table reference stands for: id -> the record last set under it.
RecordTable(ref) ==
    Bind(Stored(ref), LAMBDA rs :
        [ id \in {rs[i].id : i \in 1..Len(rs)} |->
            rs[CHOOSE i \in 1..Len(rs) :
                   /\ rs[i].id = id
                   /\ \A j \in 1..Len(rs) : rs[j].id = id => j <= i] ])

-----------------------------------------------------------------------------
(* Inputs of the model.                                                    *)

\* Corpus queries typed into the search input.
Queries == << << >>, <<" ">>, <<" ", "a", "a">>, <<"B">> >>

\* Chat queries typed into the chat search input.
ChatQueries == << << >>, <<" ">>, <<"A", " ">>, <<"a", "a">> >>

Range(seq) == {seq[i] : i \in 1..Len(seq)}

-----------------------------------------------------------------------------
(* The full-text index (the FlexSearch.Index the builder fills).  The      *)
(* library is abstracted: a record is a hit of a query when every          *)
(* lower-cased word of the query is a prefix of a lower-cased word of the  *)
(* added content (tokenize: "forward"), and hits come in insertion order.  *)

\* The content the builder adds for a record: `${text}\n${title}\n${role}`
Content(record) == record.text \o <<"\n">> \o record.title \o <<"\n">> \o record.role

\* The lower-cased words of a string.
Words(s) ==
    Bind(toLowerCase(s), LAMBDA t :
        { SubSeq(t, i, CHOOSE j \in i..Len(t) :
                          /\ \A m \in i..j : ~IsSpace(t[m])
                          /\ (j = Len(t) \/ IsSpace(t[j + 1])))
            : i \in {i \in 1..Len(t) : ~IsSpace(t[i]) /\ (i = 1 \/ IsSpace(t[i - 1]))} })

IsPrefix(p, w) == Len(p) <= Len(w) /\ SubSeq(w, 1, Len(p)) = p

IsHit(record, q) ==
    \E words \in {Words(Content(record))} :
        \A term \in Words(q) : \E w \in words : IsPrefix(term, w)

\* The positions in Built[k] of the hits of q.
HitsOf(k, q) ==
    Bind(Built[k], LAMBDA rs :
        SelectSeq(SubSeq([i \in 1..Len(rs) |-> i], 1, Len(rs)),
                  LAMBDA i : IsHit(rs[i], q)))

HitRow(k) == SubSeq([n \in 1..Len(Queries) |-> HitsOf(k, trim(Queries[n]))],
                    1, Len(Queries))

\* HitTable[k][n]: the hits of the n-th query in a complete index of document k.
HitTable == << HitRow(1), HitRow(2) >>

Take(seq, limit) ==
    Bind(seq, LAMBDA all : SubSeq(all, 1, IF Len(all) < limit THEN Len(all) ELSE limit))

\* Mutant: the limit is not passed to index.search.
searchUnlimited(ref, q, limit) ==
    IF ref.doc = 0 THEN << >>
    ELSE Bind(SelectSeq(HitTable[ref.doc][CHOOSE n \in 1..Len(Queries) :
                                             trim(Queries[n]) = q],
                        LAMBDA i : i <= ref.count),
              LAMBDA first : [j \in 1..Len(first) |-> Built[ref.doc][first[j]].id])

\* index.search(q, limit) on the index behind `ref`: the ids of the first
\* `limit` hits among the records added so far.
search(ref, q, limit) ==
    IF ref.doc = 0 THEN << >>
    ELSE Bind(Take(SelectSeq(HitTable[ref.doc][CHOOSE n \in 1..Len(Queries) :
                                                  trim(Queries[n]) = q],
                             LAMBDA i : i <= ref.count),
                   limit),
              LAMBDA first : [j \in 1..Len(first) |-> Built[ref.doc][first[j]].id])

\* A SearchRecord object is held by reference: [doc |-> k, pos |-> i] is the
\* i-th record a build of document k stored, and RecordAt gives the object.
RecordRef(k, i) == [doc |-> k, pos |-> i]

RecordAt(ref) == Built[ref.doc][ref.pos]

\* records.get(id) on the Map behind `ref`; Null stands for undefined.  The
\* third component of an id is the number of records stored before it, so
\* the record stored under it, if any, is at that position.
recordsGet(ref, id) ==
    IF ref.doc # 0 /\ id[3] < ref.count /\ Built[ref.doc][id[3] + 1].id = id
    THEN RecordRef(ref.doc, id[3] + 1)
    ELSE Null

-----------------------------------------------------------------------------
(* search-context.tsx: buildSnippet and the query effect.                  *)

Ellipsis == <<"...">>

Max(a, b) == IF a > b THEN a ELSE b
Min(a, b) == IF a < b THEN a ELSE b

buildSnippet(text, q) ==
    Bind(text, LAMBDA t :
    Bind(toLowerCase(q), LAMBDA lowerQuery :
    Bind(indexOf(toLowerCase(t), lowerQuery, 0), LAMBDA matchIndex :
        IF matchIndex = -1 THEN slice(t, 0, Min(SnippetFallback, Len(t)))
        ELSE Bind(Max(0, matchIndex - SnippetRadius), LAMBDA start :
             Bind(Min(Len(t), matchIndex + Len(lowerQuery) + SnippetRadius), LAMBDA end :
                 (IF start > 0 THEN Ellipsis ELSE << >>)
                   \o slice(t, start, end)
                   \o (IF end < Len(t) THEN Ellipsis ELSE << >>))))))

\* The results the loop over `matches` pushes, in order: ids that do not
\* resolve are skipped (`if (!record) continue`).
nextResults(ids, recordsRef, trimmed) ==
    Bind(SelectSeq(ids, LAMBDA id : recordsGet(recordsRef, id) # Null), LAMBDA resolved :
        [ j \in 1..Len(resolved) |->
            Bind(recordsGet(recordsRef, resolved[j]), LAMBDA record :
                [ record |-> record,
                  snippet |-> buildSnippet(RecordAt(record).text, trimmed) ]) ])

\* Mutant: the effect searches whatever the status is.
QueryEffectUnguarded(q, st, indexRef, recordsRef, old) ==
    Bind(trim(q), LAMBDA trimmed :
        IF trimmed = << >> THEN << >>
        ELSE IF indexRef = Null THEN old
        ELSE nextResults(search(indexRef, trimmed, ResultLimit), recordsRef, trimmed))

\* The query effect: the value of `results` after it ran.
QueryEffect(q, st, indexRef, recordsRef, old) ==
    Bind(trim(q), LAMBDA trimmed :
        IF trimmed = << >> THEN << >>
        ELSE IF st # "ready" \/ indexRef = Null THEN old
        ELSE nextResults(search(indexRef, trimmed, ResultLimit), recordsRef, trimmed))

-----------------------------------------------------------------------------
(* conversations-utils: extractMessages.                                   *)

\* The DisplayMessage the map callback returns for a node with a message.
DisplayMessage(node) ==
    Bind([ id |-> IF Has(node, "id") THEN node.id
                  ELSE IF Has(node.message, "create_time")
                       THEN <<"t", node.message.create_time>>
                       ELSE <<"message">>,
           text |-> messageText(node.message) ], LAMBDA base :
    Bind(IF Has(node.message, "author") /\ Has(node.message.author, "role")
         THEN [ f \in DOMAIN base \cup {"authorRole"} |->
                  IF f = "authorRole" THEN node.message.author.role ELSE base[f] ]
         ELSE base, LAMBDA withRole :
        WithCreateTime(withRole, node.message)))

\* Mutant: a missing createTime sorts after every time (?? Infinity).
SortKeyMissingLast(m) == IF Has(m, "createTime") THEN m.createTime ELSE 1000000

\* The sort key of the comparator: a.createTime ?? 0
SortKey(m) == IF Has(m, "createTime") THEN m.createTime ELSE 0

\* Array.prototype.sort with the comparator (a, b) => key(a) - key(b): the
\* sort is stable, so the result lists, key by ascending key, the messages
\* of that key in their original order.
RECURSIVE sortByKeys(_, _)
sortByKeys(messages, keys) ==
    IF keys = {} THEN << >>
    ELSE LET k == CHOOSE x \in keys : \A y \in keys : x <= y
         IN  SelectSeq(messages, LAMBDA m : SortKey(m) = k)
               \o sortByKeys(messages, keys \ {k})

sort(messages) ==
    Bind(messages, LAMBDA ms : sortByKeys(ms, {SortKey(ms[i]) : i \in 1..Len(ms)}))

\* Mutant: messages with an empty text are dropped, as the index builder does.
extractMessagesNonEmpty(conversation) ==
    Bind(SelectSeq(IF Has(conversation, "mapping") THEN conversation.mapping ELSE << >>,
                   LAMBDA node : Has(node, "message") /\ messageText(node.message) # << >>),
         LAMBDA withMessage :
        sort(SubSeq([i \in 1..Len(withMessage) |-> DisplayMessage(withMessage[i])],
                    1, Len(withMessage))))

extractMessages(conversation) ==
    Bind(SelectSeq(IF Has(conversation, "mapping") THEN conversation.mapping ELSE << >>,
                   LAMBDA node : Has(node, "message")), LAMBDA withMessage :
        sort(SubSeq([i \in 1..Len(withMessage) |-> DisplayMessage(withMessage[i])],
                    1, Len(withMessage))))

\* ExtractedRow(k)[c]: extractMessages of the c-th conversation of document k.
ExtractedRow(k) ==
    SubSeq([c \in 1..Len(Docs[k]) |-> extractMessages(Docs[k][c])], 1, Len(Docs[k]))

\* Extracted[k][c]: ExtractedRow(k)[c], computed once.
Extracted == << ExtractedRow(1), ExtractedRow(2) >>

\* ConversationsProvider: selectedConversation and selectedMessages of a
\* render (conversations[selectedIndex] ?? null).
HasSelection(convs, sel) == sel # NullNumber /\ sel < Len(Conversations(convs))

selectedConversation(convs, sel) ==
    IF HasSelection(convs, sel) THEN Conversations(convs)[sel + 1] ELSE Null

selectedMessages(convs, sel) ==
    IF HasSelection(convs, sel) THEN Extracted[convs][sel + 1] ELSE << >>

\* ConversationsProvider: messageCount of the row of a conversation, the
\* number of mapping nodes that carry a message.
messageCount(conversation) ==
    Len(SelectSeq(IF Has(conversation, "mapping") THEN conversation.mapping ELSE << >>,
                  LAMBDA node : Has(node, "message")))

\* ConversationsProvider: stats.totalMessages of a render, which
\* SearchProvider passes on as totalMessages.
RECURSIVE sumMessageCounts(_, _)
sumMessageCounts(array, from) ==
    IF from > Len(array) THEN 0
    ELSE messageCount(array[from]) + sumMessageCounts(array, from + 1)

totalMessages(convs) == sumMessageCounts(Conversations(convs), 1)

-----------------------------------------------------------------------------
(* chat-context: the match effect and the navigation actions.              *)

\* Mutant: the cursor advances by one instead of to the end of the match.
RECURSIVE scanMessageByOne(_, _, _, _)
scanMessageByOne(messageId, haystack, trimmed, index) ==
    IF ~(index < Len(haystack)) THEN << >>
    ELSE Bind(indexOf(haystack, trimmed, index), LAMBDA found :
             IF found = -1 THEN << >>
             ELSE <<[messageId |-> messageId, start |-> found,
                     end |-> found + Len(trimmed)]>>
                    \o scanMessageByOne(messageId, haystack, trimmed, found + 1))

\* The inner while loop over one message: the matches from `index` on.
RECURSIVE scanMessage(_, _, _, _)
scanMessage(messageId, haystack, trimmed, index) ==
    IF ~(index < Len(haystack)) THEN << >>
    ELSE Bind(indexOf(haystack, trimmed, index), LAMBDA found :
             IF found = -1 THEN << >>
             ELSE <<[messageId |-> messageId, start |-> found,
                     end |-> found + Len(trimmed)]>>
                    \o scanMessage(messageId, haystack, trimmed, found + Len(trimmed)))

\* The concatenation of perMessage[lo..hi], in order.
RECURSIVE concat(_, _, _)
concat(perMessage, lo, hi) ==
    IF lo > hi THEN << >>
    ELSE IF lo = hi THEN perMessage[lo]
    ELSE LET mid == (lo + hi) \div 2
         IN  concat(perMessage, lo, mid) \o concat(perMessage, mid + 1, hi)

\* Mutant: the matches of a message are put in front of the earlier ones
\* (unshift for push).
findMatchesLastFirst(messages, trimmed) ==
    Bind([ i \in 1..Len(messages) |->
             Bind(toLowerCase(messages[Len(messages) + 1 - i].text), LAMBDA haystack :
                 scanMessage(messages[Len(messages) + 1 - i].id, haystack, trimmed, 0)) ],
         LAMBDA perMessage : concat(perMessage, 1, Len(messages)))

\* The outer loop over the messages: nextMatches.
findMatches(messages, trimmed) ==
    Bind([ i \in 1..Len(messages) |->
             Bind(toLowerCase(messages[i].text), LAMBDA haystack :
                 scanMessage(messages[i].id, haystack, trimmed, 0)) ],
         LAMBDA perMessage : concat(perMessage, 1, Len(messages)))

\* Mutant: the query is lower-cased but not trimmed.
MatchEffectUntrimmed(q, messages) ==
    Bind(toLowerCase(q), LAMBDA trimmed :
        IF trimmed = << >> THEN [matches |-> << >>, activeMatchIndex |-> -1]
        ELSE Bind(findMatches(messages, trimmed), LAMBDA nextMatches :
                 [ matches |-> nextMatches,
                   activeMatchIndex |-> IF Len(nextMatches) > 0 THEN 0 ELSE -1 ]))

\* Mutant: the effect sets the active index 0 also when nothing matches.
MatchEffectFirstActive(q, messages) ==
    Bind(toLowerCase(trim(q)), LAMBDA trimmed :
        IF trimmed = << >> THEN [matches |-> << >>, activeMatchIndex |-> -1]
        ELSE Bind(findMatches(messages, trimmed), LAMBDA nextMatches :
                 [ matches |-> nextMatches, activeMatchIndex |-> 0 ]))

\* The match effect: the values of matches and activeMatchIndex after it ran.
MatchEffect(q, messages) ==
    Bind(toLowerCase(trim(q)), LAMBDA trimmed :
        IF trimmed = << >> THEN [matches |-> << >>, activeMatchIndex |-> -1]
        ELSE Bind(findMatches(messages, trimmed), LAMBDA nextMatches :
                 [ matches |-> nextMatches,
                   activeMatchIndex |-> IF Len(nextMatches) > 0 THEN 0 ELSE -1 ]))

\* MatchRow(k, c)[n]: the match effect for the n-th chat query on the c-th
\* conversation of document k.
MatchRow(k, c) ==
    SubSeq([n \in 1..Len(ChatQueries) |-> MatchEffect(ChatQueries[n], Extracted[k][c])],
           1, Len(ChatQueries))

MatchRows(k) == SubSeq([c \in 1..Len(Docs[k]) |-> MatchRow(k, c)], 1, Len(Docs[k]))

\* MatchTable[k][c][n]: MatchRow(k, c)[n], computed once.
MatchTable == << MatchRows(1), MatchRows(2) >>

\* The match effect of a render with chat query q and selection sel of the
\* conversations under key convs.
MatchEffectOf(q, convs, sel) ==
    IF HasSelection(convs, sel)
    THEN MatchTable[convs][sel + 1][CHOOSE n \in 1..Len(ChatQueries) : ChatQueries[n] = q]
    ELSE MatchEffect(q, << >>)

-----------------------------------------------------------------------------
(* chat-utils and chat-transcript.tsx: the highlighted text of a message.  *)

\* String.prototype.slice(from, to) on any offsets 0 <= from, 0 <= to
sliceAny(s, from, to) ==
    IF Min(from, Len(s)) >= Min(to, Len(s)) THEN << >>
    ELSE SubSeq(s, Min(from, Len(s)) + 1, Min(to, Len(s)))

\* Mutant: the text before a match is pushed also when it is empty
\* (>= for > in the test of match.start against cursor).
RECURSIVE renderFromAlways(_, _, _, _, _)
renderFromAlways(text, ms, activeMatch, i, cursor) ==
    IF i > Len(ms)
    THEN IF cursor < Len(text)
         THEN << [text |-> sliceAny(text, cursor, Len(text)), match |-> FALSE, active |-> FALSE] >>
         ELSE << >>
    ELSE (IF ms[i].start >= cursor
          THEN << [text |-> sliceAny(text, cursor, ms[i].start),
                   match |-> FALSE, active |-> FALSE] >>
          ELSE << >>)
           \o << [ text |-> sliceAny(text, ms[i].start, ms[i].end), match |-> TRUE,
                   active |-> /\ activeMatch # Null
                              /\ activeMatch.messageId = ms[i].messageId
                              /\ activeMatch.start = ms[i].start ] >>
           \o renderFromAlways(text, ms, activeMatch, i + 1, ms[i].end)

\* renderChatHighlights: the parts the loop pushes from the i-th match on,
\* with `cursor` the end of the match before, and the part after the last.
RECURSIVE renderFrom(_, _, _, _, _)
renderFrom(text, ms, activeMatch, i, cursor) ==
    IF i > Len(ms)
    THEN IF cursor < Len(text)
         THEN << [text |-> sliceAny(text, cursor, Len(text)), match |-> FALSE, active |-> FALSE] >>
         ELSE << >>
    ELSE (IF ms[i].start > cursor
          THEN << [text |-> sliceAny(text, cursor, ms[i].start),
                   match |-> FALSE, active |-> FALSE] >>
          ELSE << >>)
           \o << [ text |-> sliceAny(text, ms[i].start, ms[i].end), match |-> TRUE,
                   active |-> /\ activeMatch # Null
                              /\ activeMatch.messageId = ms[i].messageId
                              /\ activeMatch.start = ms[i].start ] >>
           \o renderFrom(text, ms, activeMatch, i + 1, ms[i].end)

\* renderChatHighlights: the text itself without matches, else the parts.
renderChatHighlights(text, ms, activeMatch) ==
    IF Len(ms) = 0 THEN text ELSE renderFrom(text, ms, activeMatch, 1, 0)

\* The dash shown for a message without text.
EmDash == <<"U+2014">>

\* ChatTranscript: the matches grouped under a message id, in order.
matchesByMessageId(ms, id) == SelectSeq(ms, LAMBDA match : match.messageId = id)

\* ChatTranscript: the active match, and the one passed on to a message.
activeMatch(ms, index) == IF index >= 0 /\ index < Len(ms) THEN ms[index + 1] ELSE Null

messageActiveMatch(ms, index, id) ==
    IF activeMatch(ms, index) # Null /\ activeMatch(ms, index).messageId = id
    THEN activeMatch(ms, index) ELSE Null

\* ChatMessage: what is rendered for `message` in the current state.
ChatMessage(message) ==
    renderChatHighlights(IF message.text = << >> THEN EmDash ELSE message.text,
                         matchesByMessageId(matches, message.id),
                         messageActiveMatch(matches, activeMatchIndex, message.id))

-----------------------------------------------------------------------------

(* Files and conversations-utils: normalizeConversations.                  *)

\* A parsed JSON value is [kind |-> "array", items |-> <<...>>],
\* [kind |-> "object", props |-> <<[key |-> ..., value |-> ...], ...>>] in
\* insertion order, [kind |-> "null"] or [kind |-> "number"].  A file is its
\* name and either its parsed value or the SyntaxError of JSON.parse.
DocumentFiles ==
    << [ name |-> "a.json", parsed |-> [kind |-> "array", items |-> Docs[1]] ],
       [ name |-> "b.json",
         parsed |-> [ kind |-> "object",
                      props |-> << [ key |-> "conversations",
                                     value |-> [kind |-> "array", items |-> Docs[2]] ] >> ] ],
       [ name |-> "bad.json", syntaxError |-> "Unexpected token" ],
       [ name |-> "none.json",
         parsed |-> [ kind |-> "object",
                      props |-> << [key |-> "version", value |-> [kind |-> "number"]] >> ] ] >>

\* Files of the other shapes JSON.parse can return: null, a number, a
\* string, an empty array, an empty object, an object whose `items` is an
\* empty array and whose `conversations` is not an array, an object whose
\* values are null, an array and an object without any of the keys of a
\* conversation.
ShapeFiles ==
    << [ name |-> "null.json", parsed |-> [kind |-> "null"] ],
       [ name |-> "number.json", parsed |-> [kind |-> "number"] ],
       [ name |-> "string.json", parsed |-> [kind |-> "string"] ],
       [ name |-> "empty-array.json", parsed |-> [kind |-> "array", items |-> << >>] ],
       [ name |-> "empty-object.json", parsed |-> [kind |-> "object", props |-> << >>] ],
       [ name |-> "items.json",
         parsed |-> [ kind |-> "object",
                      props |-> << [key |-> "conversations", value |-> [kind |-> "string"]],
                                   [key |-> "items",
                                    value |-> [kind |-> "array", items |-> << >>]] >> ] ],
       [ name |-> "values.json",
         parsed |-> [ kind |-> "object",
                      props |-> << [key |-> "a", value |-> [kind |-> "null"]],
                                   [key |-> "b",
                                    value |-> [kind |-> "array", items |-> Docs[1]]],
                                   [key |-> "c",
                                    value |-> [ kind |-> "object",
                                                props |-> << [key |-> "name",
                                                              value |-> [kind |-> "string"]] >> ]]
                                >> ] ] >>

Files == DocumentFiles \o ShapeFiles

\* The files the search provider is checked on, and every file.
FileIds == 1..Len(DocumentFiles)

AllFileIds == 1..Len(Files)

NoRecordsMessage == "No conversation records found. Ensure you selected conversations.json."

IsArrayProp(value, key) ==
    \E i \in 1..Len(value.props) :
        value.props[i].key = key /\ value.props[i].value.kind = "array"

PropItems(value, key) ==
    LET i == CHOOSE i \in 1..Len(value.props) : value.props[i].key = key
    IN  value.props[i].value.items

\* The predicate of the fallback filter over Object.values(maybeRecord).
LooksLikeConversation(item) ==
    /\ item.kind = "object"
    /\ \E i \in 1..Len(item.props) :
          item.props[i].key \in {"mapping", "title", "id", "conversation_id"}

normalizeConversations(value) ==
    IF value.kind = "array" THEN value.items
    ELSE IF value.kind = "object"
    THEN IF IsArrayProp(value, "conversations") THEN PropItems(value, "conversations")
         ELSE IF IsArrayProp(value, "items") THEN PropItems(value, "items")
         ELSE IF IsArrayProp(value, "data") THEN PropItems(value, "data")
         ELSE LET values == [i \in 1..Len(value.props) |-> value.props[i].value]
              IN  SelectSeq(SubSeq(values, 1, Len(value.props)), LooksLikeConversation)
    ELSE << >>

\* Mutant: an empty normalized list is set as the conversations (the
\* length test before setConversations is missing).
LoadOutcomeAcceptsEmpty(f) ==
    IF Has(Files[f], "syntaxError") THEN [ok |-> FALSE, message |-> Files[f].syntaxError]
    ELSE Bind(normalizeConversations(Files[f].parsed), LAMBDA normalized :
             [ok |-> TRUE, conversations |-> KeyOf(normalized)])

\* handleFile after `await file.text()`: the try / catch outcome.
\* [ok |-> TRUE, conversations |-> key] or [ok |-> FALSE, message |-> ...].
LoadOutcome(f) ==
    IF Has(Files[f], "syntaxError") THEN [ok |-> FALSE, message |-> Files[f].syntaxError]
    ELSE Bind(normalizeConversations(Files[f].parsed), LAMBDA normalized :
             IF Len(normalized) = 0 THEN [ok |-> FALSE, message |-> NoRecordsMessage]
             ELSE [ok |-> TRUE, conversations |-> KeyOf(normalized)])

\* LoadTable[f]: LoadOutcome(f), computed once.
LoadTable == SubSeq([f \in AllFileIds |-> LoadOutcome(f)], 1, Len(Files))

-----------------------------------------------------------------------------
(* search-context.tsx: the index build effect.                             *)

\* Mutant: the effect stores the counter back without incrementing it.
NextBuildIdSame(current) == current

\* buildId = searchBuildIdRef.current + 1
NextBuildId(current) == current + 1

\* Mutant: the staleness checks are missing.
IsCurrentAlways(current, buildId) == TRUE

\* searchBuildIdRef.current !== buildId, negated
IsCurrent(current, buildId) == current = buildId

\* Mutant: the build returns at its first yield and publishes what it has.
BuildRunStopsAtYield(k, count) ==
    Bind(Total(k), LAMBDA total :
    Bind({c \in (count + 1)..total : c % YieldEvery = 0}, LAMBDA stops :
        IF stops = {} THEN [count |-> total, done |-> TRUE]
        ELSE [count |-> CHOOSE c \in stops : \A d \in stops : c <= d, done |-> TRUE]))

\* Mutant: the build awaits the timer at every second multiple only
\* (count % 1000 for count % 500).
BuildRunYieldsLate(k, count) ==
    Bind(Total(k), LAMBDA total :
    Bind({c \in (count + 1)..total : c % (2 * YieldEvery) = 0}, LAMBDA stops :
        IF stops = {} THEN [count |-> total, done |-> TRUE]
        ELSE [count |-> CHOOSE c \in stops : \A d \in stops : c <= d, done |-> FALSE]))

\* One synchronous run of buildIndex on document k with `count` records
\* stored: it runs to the next count that is a multiple of YieldEvery, where
\* it awaits the timer, or to the end of the traversal.
BuildRun(k, count) ==
    Bind(Total(k), LAMBDA total :
    Bind({c \in (count + 1)..total : c % YieldEvery = 0}, LAMBDA stops :
        IF stops = {} THEN [count |-> total, done |-> TRUE]
        ELSE [count |-> CHOOSE c \in stops : \A d \in stops : c <= d, done |-> FALSE]))

\* Mutant: the empty-array branch sets the status "building".
EmptyStatusBuilding == "building"

\* The status the effect sets for an empty conversations array.
EmptyStatus == "idle"

\* The search state: the refs and the state of SearchProvider.
SearchState ==
    [ buildId |-> searchBuildIdRef, index |-> searchIndexRef,
      records |-> searchRecordsRef, status |-> status, results |-> results,
      builds |-> builds, calls |-> << >> ]

\* setStatus(value)
setStatus(s, value) == [s EXCEPT !.status = value, !.calls = Append(@, value)]

\* Mutant: the build assigns its local tables to the refs at every yield.
AfterRunPublishEarly(s, buildId, k, run) ==
    IF ~run.done
    THEN [s EXCEPT !.index = TableRef(k, run.count),
                   !.records = TableRef(k, run.count),
                   !.builds = @ \cup {[buildId |-> buildId, doc |-> k, count |-> run.count]}]
    ELSE IF ~IsCurrent(s.buildId, buildId) THEN s
    ELSE setStatus([s EXCEPT !.index = TableRef(k, run.count),
                             !.records = TableRef(k, run.count)],
                   "ready")

\* What a synchronous run of buildIndex leaves: a suspended build at a yield,
\* or the published tables and status "ready" once the last check passed.
AfterRun(s, buildId, k, run) ==
    IF ~run.done
    THEN [s EXCEPT !.builds = @ \cup {[buildId |-> buildId, doc |-> k, count |-> run.count]}]
    ELSE IF ~IsCurrent(s.buildId, buildId) THEN s
    ELSE setStatus([s EXCEPT !.index = TableRef(k, run.count),
                             !.records = TableRef(k, run.count)],
                   "ready")

\* Mutant: the empty-array branch does not call setResults([]).
BuildEffectKeepResults(s, k) ==
    Bind(NextBuildId(s.buildId), LAMBDA buildId :
        IF Len(Conversations(k)) = 0
        THEN [setStatus(s, EmptyStatus) EXCEPT
                       !.buildId = buildId,
                       !.index = EmptyTable, !.records = EmptyTable]
        ELSE Bind(BuildRun(k, 0), LAMBDA run :
                 AfterRun([setStatus(s, "building") EXCEPT
                              !.buildId = buildId, !.results = << >>],
                          buildId, k, run)))

\* Mutant: a build of a non-empty array does not call setStatus("building").
BuildEffectKeepsStatus(s, k) ==
    Bind(NextBuildId(s.buildId), LAMBDA buildId :
        IF Len(Conversations(k)) = 0
        THEN [setStatus(s, EmptyStatus) EXCEPT
                       !.buildId = buildId,
                       !.index = EmptyTable, !.records = EmptyTable,
                       !.results = << >>]
        ELSE Bind(BuildRun(k, 0), LAMBDA run :
                 AfterRun([s EXCEPT !.buildId = buildId, !.results = << >>],
                          buildId, k, run)))

\* The index build effect for the conversations array under key k, up to the
\* first await of buildIndex.
BuildEffect(s, k) ==
    Bind(NextBuildId(s.buildId), LAMBDA buildId :
        IF Len(Conversations(k)) = 0
        THEN [setStatus(s, EmptyStatus) EXCEPT
                       !.buildId = buildId,
                       !.index = EmptyTable, !.records = EmptyTable,
                       !.results = << >>]
        ELSE Bind(BuildRun(k, 0), LAMBDA run :
                 AfterRun([setStatus(s, "building") EXCEPT
                              !.buildId = buildId, !.results = << >>],
                          buildId, k, run)))

\* Mutant: the check after the await is inverted (=== for !==).
ResumeRunInverted(s, b) ==
    IF IsCurrent(s.buildId, b.buildId) THEN [s EXCEPT !.builds = @ \ {b}]
    ELSE Bind(BuildRun(b.doc, b.count), LAMBDA run :
             AfterRun([s EXCEPT !.builds = @ \ {b}], b.buildId, b.doc, run))

\* A suspended build resumes after its timer fired.
ResumeRun(s, b) ==
    IF ~IsCurrent(s.buildId, b.buildId) THEN [s EXCEPT !.builds = @ \ {b}]
    ELSE Bind(BuildRun(b.doc, b.count), LAMBDA run :
             AfterRun([s EXCEPT !.builds = @ \ {b}], b.buildId, b.doc, run))

\* Mutant: the dependency array is [conversations, selectedIndex].
BuildEffectRunsOnSelect(conversationsSet, selectionChanged) ==
    conversationsSet \/ selectionChanged

\* The dependency array of the index build effect, [conversations]: the
\* effect runs in a commit when setConversations was called (every call
\* passes a new array); selectionChanged tells whether selectedIndex changed.
BuildEffectRuns(conversationsSet, selectionChanged) == conversationsSet

\* The dependency array of the query effect, [query, status].
QueryEffectRuns(q, prevQuery, st, prevStatus) == q # prevQuery \/ st # prevStatus

\* Mutant: the dependency array of the match effect is [query].
MatchEffectRunsOnQuery(providerRendered, q, prevQuery) == q # prevQuery

\* The dependency array of the match effect, [query, selectedMessages]:
\* selectedMessages is a new array in every render of ConversationsProvider.
MatchEffectRuns(providerRendered, q, prevQuery) == providerRendered \/ q # prevQuery

\* The search state s after the query effect ran in a render with query q
\* and status st.
WithQueryEffect(s, q, st) ==
    [s EXCEPT !.results = QueryEffect(q, st, s.index, s.records, s.results)]

\* The commit of an event's render: the build effect runs before the query
\* effect, and both see the status prevStatus of that render.
FirstCommit(s, k, conversationsSet, selectionChanged, q, prevQuery, prevStatus) ==
    Bind(IF BuildEffectRuns(conversationsSet, selectionChanged)
         THEN BuildEffect(s, k) ELSE s, LAMBDA t :
        IF QueryEffectRuns(q, prevQuery, prevStatus, prevStatus)
        THEN WithQueryEffect(t, q, prevStatus) ELSE t)

\* The commit of the render that the updates of the first commit cause.
SecondCommit(s, q, prevStatus) ==
    IF QueryEffectRuns(q, q, s.status, prevStatus)
    THEN WithQueryEffect(s, q, s.status) ELSE s

\* The effects of SearchProvider after an event, from the search state s the
\* event left.
SearchEffects(s, k, conversationsSet, selectionChanged, q, prevQuery, prevStatus) ==
    Bind(FirstCommit(s, k, conversationsSet, selectionChanged, q, prevQuery, prevStatus),
         LAMBDA t : SecondCommit(t, q, prevStatus))

\* The search state before mount: the initial useState and useRef values.
Unmounted ==
    [ buildId |-> 0, index |-> Null, records |-> EmptyTable,
      status |-> "idle", results |-> << >>, builds |-> {}, calls |-> << >> ]

\* The search state after mount: both effects run in the first commit.
Mounted == SearchEffects(Unmounted, 0, TRUE, FALSE, << >>, NullString, "idle")

-----------------------------------------------------------------------------
(* The state machine.                                                      *)

\* Assign the search state s.
SetSearch(s) ==
    /\ searchBuildIdRef' = s.buildId
    /\ searchIndexRef' = s.index
    /\ searchRecordsRef' = s.records
    /\ status' = s.status
    /\ results' = s.results
    /\ builds' = s.builds
    /\ setStatusCalls' = s.calls

\* The effects of SearchProvider after an event of the conversations
\* provider that left the search state untouched.
RunSearchEffects(conversationsSet) ==
    /\ query' = query
    /\ \E s \in {SearchEffects(SearchState, conversations', conversationsSet,
                               selectedIndex' # selectedIndex, query, query, status)} :
          SetSearch(s)

\* Assign the outcome r of the match effect.
SetChat(r) ==
    /\ matches' = r.matches
    /\ activeMatchIndex' = r.activeMatchIndex

\* The match effect of ChatProvider after an event.
RunMatchEffect(providerRendered) ==
    IF MatchEffectRuns(providerRendered, chatQuery', chatQuery)
    THEN \E r \in {MatchEffectOf(chatQuery', conversations', selectedIndex')} : SetChat(r)
    ELSE UNCHANGED <<matches, activeMatchIndex>>

\* The state after mount: the effects ran once on the initial useState and
\* useRef values.
InitProviders ==
    /\ conversations = 0
    /\ fileName = NullString
    /\ error = NullString
    /\ loading = FALSE
    /\ selectedIndex = NullNumber
    /\ pending = {}
    /\ query = << >>
    /\ chatQuery = << >>
    /\ \E s \in {Mounted} :
          /\ searchBuildIdRef = s.buildId
          /\ searchIndexRef = s.index
          /\ searchRecordsRef = s.records
          /\ status = s.status
          /\ results = s.results
          /\ builds = s.builds
          /\ setStatusCalls = s.calls
    /\ \E r \in {MatchEffectOf(<< >>, 0, NullNumber)} :
          /\ matches = r.matches
          /\ activeMatchIndex = r.activeMatchIndex

Init == InitProviders /\ input = Null

\* handleFile up to `await file.text()` (onFileChange, onDrop).
StartLoad(f) ==
    /\ f \notin pending
    /\ Cardinality(pending) < MaxPending
    /\ error' = NullString
    /\ loading' = TRUE
    /\ fileName' = Files[f].name
    /\ pending' = pending \cup {f}
    /\ UNCHANGED <<conversations, selectedIndex, chatQuery>>
    /\ RunSearchEffects(FALSE)
    /\ RunMatchEffect(<<error', loading', fileName'>> # <<error, loading, fileName>>)
    /\ UNCHANGED input

\* Mutant: the catch branch keeps the conversations (no setConversations([])).
FinishLoadKeepsDocument(f) ==
    /\ f \in pending
    /\ searchBuildIdRef < MaxBuilds
    /\ pending' = pending \ {f}
    /\ LET outcome == LoadTable[f]
       IN  /\ conversations' = IF outcome.ok THEN outcome.conversations ELSE conversations
           /\ error' = IF outcome.ok THEN error ELSE outcome.message
           /\ RunSearchEffects(outcome.ok)
    /\ selectedIndex' = NullNumber
    /\ loading' = FALSE
    /\ UNCHANGED <<fileName, chatQuery>>
    /\ RunMatchEffect(TRUE)
    /\ UNCHANGED input

\* handleFile from `await file.text()` on: try, catch and finally, then the
\* effects on the new conversations array.
FinishLoad(f) ==
    /\ f \in pending
    /\ searchBuildIdRef < MaxBuilds
    /\ pending' = pending \ {f}
    /\ LET outcome == LoadTable[f]
       IN  /\ conversations' = IF outcome.ok THEN outcome.conversations ELSE 0
           /\ error' = IF outcome.ok THEN error ELSE outcome.message
    /\ selectedIndex' = NullNumber
    /\ loading' = FALSE
    /\ UNCHANGED <<fileName, chatQuery>>
    /\ RunSearchEffects(TRUE)
    /\ RunMatchEffect(TRUE)
    /\ UNCHANGED input

\* onClear
Clear ==
    /\ searchBuildIdRef < MaxBuilds
    /\ conversations' = 0
    /\ fileName' = NullString
    /\ error' = NullString
    /\ selectedIndex' = NullNumber
    /\ UNCHANGED <<loading, pending, chatQuery>>
    /\ RunSearchEffects(TRUE)
    /\ RunMatchEffect(TRUE)
    /\ UNCHANGED input

\* onSelectRow(index), from a table row or from a corpus search result
SelectRow(index) ==
    /\ selectedIndex' = index
    /\ UNCHANGED <<conversations, fileName, error, loading, pending, chatQuery>>
    /\ RunSearchEffects(FALSE)
    /\ RunMatchEffect(selectedIndex' # selectedIndex)
    /\ UNCHANGED input

\* The indexes onSelectRow is called with: the rows of the table and the
\* conversationIndex of the corpus search results shown.
SelectableIndexes ==
    {i - 1 : i \in 1..Len(Conversations(conversations))}
      \cup {RecordAt(results[i].record).conversationIndex : i \in 1..Len(results)}

\* SearchProvider: setQuery, then the query effect
SetQuery(q) ==
    /\ query' = q
    /\ \E s \in {SearchEffects(SearchState, conversations, FALSE, FALSE, q, query, status)} :
          SetSearch(s)
    /\ UNCHANGED convVars
    /\ UNCHANGED chatVars
    /\ UNCHANGED input

\* The timer of a suspended build fires: buildIndex resumes, and the effects
\* of the render run if it set the status.
ResumeBuild(b) ==
    /\ b \in builds
    /\ UNCHANGED <<query>>
    /\ UNCHANGED convVars
    /\ UNCHANGED chatVars
    /\ UNCHANGED input
    /\ \E s \in {SearchEffects(ResumeRun(SearchState, b), conversations, FALSE, FALSE,
                               query, query, status)} :
          SetSearch(s)

\* ChatProvider: setQuery, then the match effect
SetChatQuery(q) ==
    /\ chatQuery' = q
    /\ UNCHANGED convVars
    /\ UNCHANGED searchVars
    /\ RunMatchEffect(FALSE)
    /\ setStatusCalls' = << >>
    /\ UNCHANGED input

\* Mutant: the updater wraps below 1 instead of below 0 (<= 1 for <= 0).
prevIndexFromOne(current, length) == IF current <= 1 THEN length - 1 ELSE current - 1

\* The updater prevMatch passes to setActiveMatchIndex.
prevIndex(current, length) == IF current <= 0 THEN length - 1 ELSE current - 1

\* Mutant: the updater wraps one step late (>= length for >= length - 1).
nextIndexPastEnd(current, length) == IF current >= length THEN 0 ELSE current + 1

\* The updater nextMatch passes to setActiveMatchIndex.
nextIndex(current, length) == IF current >= length - 1 THEN 0 ELSE current + 1

\* ChatProvider: prevMatch
PrevMatch ==
    /\ activeMatchIndex' =
          IF Len(matches) = 0 THEN activeMatchIndex
          ELSE prevIndex(activeMatchIndex, Len(matches))
    /\ UNCHANGED <<chatQuery, matches>>
    /\ UNCHANGED convVars
    /\ UNCHANGED searchVars
    /\ setStatusCalls' = << >>
    /\ UNCHANGED input

\* ChatProvider: nextMatch
NextMatch ==
    /\ activeMatchIndex' =
          IF Len(matches) = 0 THEN activeMatchIndex
          ELSE nextIndex(activeMatchIndex, Len(matches))
    /\ UNCHANGED <<chatQuery, matches>>
    /\ UNCHANGED convVars
    /\ UNCHANGED searchVars
    /\ setStatusCalls' = << >>
    /\ UNCHANGED input

\* The conversations provider and the search provider under every input.
Next ==
    \/ \E f \in FileIds : StartLoad(f)
    \/ \E f \in FileIds : FinishLoad(f)
    \/ Clear
    \/ \E index \in SelectableIndexes : SelectRow(index)
    \/ \E q \in Range(Queries) : SetQuery(q)
    \/ \E b \in builds : ResumeBuild(b)

Spec == Init /\ [][Next]_vars

\* The conversations provider and the chat provider under every input.
NextChat ==
    \/ \E f \in FileIds : StartLoad(f)
    \/ \E f \in FileIds : FinishLoad(f)
    \/ Clear
    \/ \E index \in SelectableIndexes : SelectRow(index)
    \/ \E q \in Range(ChatQueries) : SetChatQuery(q)
    \/ PrevMatch
    \/ NextMatch

SpecChat == Init /\ [][NextChat]_vars

\* The conversations provider under the files of every shape.
NextLoad ==
    \/ \E f \in AllFileIds : StartLoad(f)
    \/ \E f \in AllFileIds : FinishLoad(f)
    \/ Clear
    \/ \E index \in SelectableIndexes : SelectRow(index)

SpecLoad == Init /\ [][NextLoad]_vars

-----------------------------------------------------------------------------
(* The index builder under fair timers: every timer a suspended build      *)
(* awaits fires, so every suspended build resumes.                         *)

AllBuilds ==
    [ buildId : 1..MaxBuilds, doc : 1..Len(Docs),
      count : {c \in 1..BigNodes : c % YieldEvery = 0} ]

FairSpec == Spec /\ \A b \in AllBuilds : WF_vars(ResumeBuild(b))

-----------------------------------------------------------------------------
(* ChatProvider on its own: the match effect on every small message list.  *)

TextAlphabet == {"a", "A", " "}

Strings(n) == UNION {[1..l -> TextAlphabet] : l \in 0..n}

\* extractMessages trims every text.
Texts(n) == {t \in Strings(n) : trim(t) = t}

\* The ids extractMessages gives: a node id, or the fallback "message".
MessageIds == {<<"n", 1>>, <<"message">>}

Messages(n) == [id : MessageIds, text : Texts(n)]

MessageLists ==
    {<< >>}
      \cup {<<m>> : m \in Messages(MaxTextLen)}
      \cup {<<m[1], m[2]>> : m \in {p \in Messages(MaxTextLen) \X Messages(MaxTextLen) :
                                       Len(p[1].text) + Len(p[2].text) <= MaxTextLen}}

MatchQueries == Strings(MaxQueryLen)

InitMatch == InitProviders /\ input \in MessageLists

\* ChatProvider: setQuery, then the match effect on the given messages
SetChatQueryAlone(q) ==
    /\ chatQuery' = q
    /\ \E r \in {MatchEffect(q, input)} : SetChat(r)
    /\ UNCHANGED convVars
    /\ UNCHANGED searchVars
    /\ setStatusCalls' = << >>
    /\ UNCHANGED input

NextMatchAlone ==
    \/ \E q \in MatchQueries : SetChatQueryAlone(q)
    \/ PrevMatch
    \/ NextMatch

SpecMatch == InitMatch /\ [][NextMatchAlone]_vars

-----------------------------------------------------------------------------
(* ChatProvider on one selected conversation: extractMessages and the      *)
(* match effect on every small conversation.                               *)

\* The messages of the nodes: create_time absent, 0 or 5; no parts or "a".
NodeMessages ==
    { [ author |-> [role |-> User], content |-> [parts |-> parts] ] :
        parts \in { << >>, << <<"a">> >> } }
      \cup { [ author |-> [role |-> User], create_time |-> time,
              content |-> [parts |-> parts] ] :
              time \in {0, 5}, parts \in { << >>, << <<"a">> >> } }

\* The i-th mapping node: without a message, or with one.
NodesAt(i) ==
    { [ id |-> <<"n", i>> ] }
      \cup { [ id |-> <<"n", i>>, message |-> message ] : message \in NodeMessages }

\* The mappings of n nodes, in iteration order.
RECURSIVE Mappings(_)
Mappings(n) ==
    IF n = 0 THEN { << >> }
    ELSE { Append(mapping, node) : mapping \in Mappings(n - 1), node \in NodesAt(n) }

\* A conversation without mapping and the conversations of up to MaxNodes
\* mapping nodes.
SmallConversations ==
    { [ id |-> "c0" ] }
      \cup { [ id |-> "c0", mapping |-> mapping ] :
              mapping \in UNION { Mappings(n) : n \in 0..MaxNodes } }

InitExtract == InitProviders /\ input \in SmallConversations

\* ChatProvider: setQuery, then the match effect on the messages extracted
\* from the selected conversation
SetChatQueryOn(q) ==
    /\ chatQuery' = q
    /\ \E r \in {MatchEffect(q, extractMessages(input))} : SetChat(r)
    /\ UNCHANGED convVars
    /\ UNCHANGED searchVars
    /\ setStatusCalls' = << >>
    /\ UNCHANGED input

NextExtract ==
    \/ \E q \in Range(ChatQueries) : SetChatQueryOn(q)
    \/ PrevMatch
    \/ NextMatch

SpecExtract == InitExtract /\ [][NextExtract]_vars

-----------------------------------------------------------------------------
(* buildSnippet on its own: the body of the query effect's loop on one     *)
(* record, which the index is taken to return for every non-blank query.   *)

\* The lengths of the text before and after the match.
Pads == {0, 1, SnippetRadius - 1, SnippetRadius, MaxPad}

Pad(ch, n) == SubSeq([i \in 1..n |-> ch], 1, n)

\* The texts: `before` characters (all x, or all capital I with dot above),
\* "aB", `after` characters x and, if `twice`, a second "Ab".
SnippetText(ch, before, after, twice) ==
    Pad(ch, before) \o <<"a", "B">> \o Pad("x", after)
                    \o (IF twice THEN <<"A", "b">> ELSE << >>)

SnippetRecords ==
    { [ text |-> SnippetText(ch, before, after, twice) ] :
        ch \in {"x", DottedI}, before \in Pads, after \in Pads, twice \in BOOLEAN }

SnippetQueries ==
    { << >>, <<"a", "b">>, <<" ", "A", "B">>, <<"b">>, <<"x", "a">>, <<"b", "x">>, <<"q">> }

InitSnippet == InitProviders /\ input \in SnippetRecords

\* setQuery, then the body of the loop of the query effect on the record:
\* nextResults.push({ record, snippet: buildSnippet(record.text, trimmed) })
PushResult(q) ==
    /\ query' = q
    /\ \E trimmed \in {trim(q)} :
          results' = IF trimmed = << >> THEN << >>
                     ELSE << [ record |-> input,
                               snippet |-> buildSnippet(input.text, trimmed) ] >>
    /\ UNCHANGED <<status, searchIndexRef, searchRecordsRef, searchBuildIdRef, builds>>
    /\ UNCHANGED convVars
    /\ UNCHANGED chatVars
    /\ setStatusCalls' = << >>
    /\ UNCHANGED input

NextSnippet == \E q \in SnippetQueries : PushResult(q)

SpecSnippet == InitSnippet /\ [][NextSnippet]_vars

-----------------------------------------------------------------------------
(* Properties of the index builder (Spec, FairSpec).                       *)

\* C1: a suspended build whose captured generation is no longer the current
\* one, when it resumes, leaves the published index, the published record
\* table, the status and the results as they are, and is gone afterwards:
\* nothing a superseded build produced becomes visible.
StaleBuildWritesNothing ==
    [][\A b \in builds :
          (b.buildId # searchBuildIdRef /\ ResumeBuild(b))
            => /\ UNCHANGED <<searchIndexRef, searchRecordsRef, status, results>>
               /\ builds' = builds \ {b}]_vars

\* C1 witness: a newer build has published its tables while a superseded
\* build of another document is still suspended.
StaleBuildInFlight ==
    /\ status = "ready"
    /\ \E b \in builds : b.buildId < searchBuildIdRef /\ b.doc # searchRecordsRef.doc

\* C2: under fair timers, whenever the generation is g and the conversations
\* are not empty, either a further build is requested or the status becomes
\* ready with the published index and record table those of a complete build
\* of the current conversations array.
LatestBuildCompletes ==
    \A g \in 1..MaxBuilds :
        (searchBuildIdRef = g /\ conversations # 0)
          ~> \/ searchBuildIdRef # g
             \/ /\ status = "ready"
                /\ searchIndexRef = TableRef(conversations, Total(conversations))
                /\ searchRecordsRef = TableRef(conversations, Total(conversations))

\* C2 witness: the build of the large document went through its yields and
\* published.
LargeBuildPublished ==
    /\ conversations = 2
    /\ status = "ready"
    /\ searchRecordsRef = TableRef(2, Total(2))
    /\ Total(2) > 2 * YieldEvery

\* C3: the results are empty whenever the trimmed query is empty or the
\* status is not ready.
NoResultsUnlessReady ==
    (trim(query) = << >> \/ status # "ready") => results = << >>

\* C3 witness: a build is running over a previously published index, with a
\* query that has hits in that index.
BuildingWithQuery ==
    /\ status = "building"
    /\ trim(query) # << >>
    /\ search(searchIndexRef, trim(query), ResultLimit) # << >>

\* C4: the published index and record table come from the same build, that
\* build went through its whole traversal (or they are the empty pair), and
\* every id the published index returns to a query resolves in the published
\* table.
PublishedTablesComplete ==
    /\ searchIndexRef = searchRecordsRef
    /\ searchRecordsRef.count = Total(searchRecordsRef.doc)
    /\ \A n \in 1..Len(Queries) :
          \A id \in Range(search(searchIndexRef, trim(Queries[n]), ResultLimit)) :
              recordsGet(searchRecordsRef, id) # Null

\* C4 witness: a complete table is published while the current build is
\* suspended with a partial table of its own.
PartialBuildBehindPublished ==
    /\ searchRecordsRef.doc # 0
    /\ \E b \in builds : b.buildId = searchBuildIdRef /\ b.count < Total(b.doc)

\* C5: the generation counter never decreases; a build invocation (the
\* effect after setConversations: a finished load, a clear) increases it by
\* exactly one, and a build it suspends has captured the new value; every
\* other step leaves it unchanged.
GenerationCountsBuilds ==
    [][/\ searchBuildIdRef' >= searchBuildIdRef
       /\ IF (\E f \in FileIds : FinishLoad(f)) \/ Clear
          THEN /\ searchBuildIdRef' = searchBuildIdRef + 1
               /\ \A b \in builds' \ builds : b.buildId = searchBuildIdRef'
          ELSE searchBuildIdRef' = searchBuildIdRef]_vars

\* C5 witness: the third build invocation, for an empty conversations array.
ThirdBuildOnEmpty == searchBuildIdRef = 3 /\ conversations = 0

\* C6 as stated: every setStatus call that changes the status moves it
\* along idle -> building, building -> ready, building -> building or
\* ready -> building.
StatusMovesAsClaimed ==
    [][\A i \in 1..Len(setStatusCalls') :
          LET from == IF i = 1 THEN status ELSE setStatusCalls'[i - 1]
              to == setStatusCalls'[i]
          IN  from # to =>
                <<from, to>> \in { <<"idle", "building">>, <<"building", "ready">>,
                                   <<"building", "building">>, <<"ready", "building">> }]_vars

\* C6 amended: every setStatus call that changes the status moves it along
\* idle -> building, building -> building or ready -> building (a build of
\* a non-empty conversations array), along building -> ready, or, in a build
\* invoked with an empty conversations array, along building -> idle or
\* ready -> idle; the status is one of idle, building, ready and is what the
\* last call set.
StatusMoves ==
    [][/\ status' \in {"idle", "building", "ready"}
       /\ status' = IF setStatusCalls' = << >> THEN status
                    ELSE setStatusCalls'[Len(setStatusCalls')]
       /\ \A i \in 1..Len(setStatusCalls') :
             LET from == IF i = 1 THEN status ELSE setStatusCalls'[i - 1]
                 to == setStatusCalls'[i]
             IN  from # to =>
                   \/ /\ <<from, to>> \in { <<"idle", "building">>, <<"building", "building">>,
                                            <<"ready", "building">> }
                      /\ conversations' # 0
                   \/ <<from, to>> = <<"building", "ready">>
                   \/ /\ <<from, to>> \in { <<"building", "idle">>, <<"ready", "idle">> }
                      /\ conversations' = 0]_vars

\* C6 witness: a build invoked with an empty array set the status idle while
\* a build of an earlier array was still suspended.
IdleOverSuspendedBuild ==
    /\ status = "idle"
    /\ setStatusCalls = <<"idle">>
    /\ builds # {}

\* C7: while the conversations array is empty the published index and record
\* table are the empty pair, the status is idle, the results are empty and no
\* suspended build holds the current generation.
EmptyConversationsIdle ==
    conversations = 0 =>
        /\ searchIndexRef = EmptyTable
        /\ searchRecordsRef = EmptyTable
        /\ status = "idle"
        /\ results = << >>
        /\ \A b \in builds : b.buildId # searchBuildIdRef

\* C7 witness: a build was invoked with an empty array, with a query typed,
\* while a build of an earlier array was suspended.
EmptiedWhileBuilding ==
    /\ conversations = 0
    /\ searchBuildIdRef > 1
    /\ builds # {}
    /\ trim(query) # << >>

\* C8: a step that selects a conversation leaves the conversations array,
\* the file name, the error, the loading flag, the generation counter, the
\* status, the published index and record table, the query, the results and
\* the suspended builds unchanged, and no setStatus call is made.
SelectionLeavesIndexAlone ==
    [][(\E index \in SelectableIndexes : SelectRow(index))
          => /\ UNCHANGED <<conversations, fileName, error, loading, pending>>
             /\ UNCHANGED <<searchBuildIdRef, status, searchIndexRef, searchRecordsRef,
                            query, results, builds>>
             /\ setStatusCalls' = << >>]_vars

\* C8 witness: a conversation is selected while results are shown.
SelectedWithResults ==
    /\ selectedIndex # NullNumber
    /\ status = "ready"
    /\ results # << >>

-----------------------------------------------------------------------------
(* Properties of the match effect (SpecMatch).                             *)

\* C9: for every message list, a chat query that is empty or only whitespace
\* leaves an empty match array and the active index -1.
BlankQueryNoMatches ==
    trim(chatQuery) = << >> => matches = << >> /\ activeMatchIndex = -1

\* C9 witness: a whitespace query on a message whose text contains a space.
BlankQueryOnSpacedText ==
    /\ chatQuery = <<" ">>
    /\ \E i \in 1..Len(input) : " " \in Range(input[i].text)
    /\ matches = << >>

\* C10 as stated: consecutive matches with the same messageId do not overlap.
SameIdMatchesDisjoint ==
    \A i \in 1..(Len(matches) - 1) :
        matches[i].messageId = matches[i + 1].messageId
          => matches[i].end <= matches[i + 1].start

\* C10 amended: the matches can be assigned, in order, to the messages they
\* were found in (each is an occurrence of the lower-cased trimmed query in
\* the lower-cased text of its message, under that message's id), and
\* consecutive matches of the same message do not overlap; the query "aa" on
\* the one text "aaa" gives the single match [0, 2].
SameMessageMatchesDisjoint ==
    /\ \E owner \in [1..Len(matches) -> 1..Len(input)] :
          /\ \A i \in 1..Len(matches) :
                /\ matches[i].messageId = input[owner[i]].id
                /\ 0 <= matches[i].start
                /\ matches[i].end <= Len(toLowerCase(input[owner[i]].text))
                /\ slice(toLowerCase(input[owner[i]].text), matches[i].start, matches[i].end)
                     = toLowerCase(trim(chatQuery))
          /\ \A i \in 1..(Len(matches) - 1) :
                /\ owner[i] <= owner[i + 1]
                /\ owner[i] = owner[i + 1] => matches[i].end <= matches[i + 1].start
    /\ (input = <<[id |-> <<"n", 1>>, text |-> <<"a", "a", "a">>]>> /\ chatQuery = <<"a", "a">>)
          => matches = <<[messageId |-> <<"n", 1>>, start |-> 0, end |-> 2]>>

\* C10 witness: two messages under the same fallback id, the last match of
\* the first ending after the start of the first match of the second.
MatchesAcrossEqualIds ==
    /\ Len(input) = 2
    /\ input[1].id = input[2].id
    /\ Len(matches) = 3
    /\ matches[2].end > matches[3].start

\* The position in the input list of the message of a given id.
PositionOf(id) == CHOOSE p \in 1..Len(input) : input[p].id = id

\* C11: the matches can be assigned to the messages of the input list so
\* that the owners never go back in the list and the start offsets of one
\* owner strictly ascend; when the ids of the input messages are distinct the
\* owner of a match is the message of its messageId, and every match of an
\* earlier message stands before every match of a later one.
MatchesInMessageOrder ==
    /\ \E owner \in [1..Len(matches) -> 1..Len(input)] :
          /\ \A i \in 1..Len(matches) : matches[i].messageId = input[owner[i]].id
          /\ \A i \in 1..(Len(matches) - 1) :
                \/ owner[i] < owner[i + 1]
                \/ owner[i] = owner[i + 1] /\ matches[i].start < matches[i + 1].start
    /\ (\A p, r \in 1..Len(input) : input[p].id = input[r].id => p = r)
          => \A i, j \in 1..Len(matches) :
                i < j => \/ PositionOf(matches[i].messageId) < PositionOf(matches[j].messageId)
                         \/ /\ matches[i].messageId = matches[j].messageId
                            /\ matches[i].start < matches[j].start

\* C11 witness: two messages with distinct ids, two matches in the first and
\* one in the second, whose start offset is below that of the match before.
LaterMessageLowerStart ==
    /\ Len(input) = 2
    /\ input[1].id # input[2].id
    /\ Len(matches) = 3
    /\ matches[2].messageId = input[1].id
    /\ matches[3].messageId = input[2].id
    /\ matches[3].start < matches[2].start

\* C12: a nextMatch step on n > 0 matches sets the active index to
\* (i + 1) mod n and a prevMatch step sets it to (i - 1 + n) mod n; on an
\* empty match array both leave the active index, which is -1; neither
\* changes the match array or the query.
NavigationIsModular ==
    [][/\ NextMatch =>
             IF Len(matches) > 0
             THEN activeMatchIndex' = (activeMatchIndex + 1) % Len(matches)
             ELSE activeMatchIndex = -1 /\ activeMatchIndex' = -1
       /\ PrevMatch =>
             IF Len(matches) > 0
             THEN activeMatchIndex' = (activeMatchIndex - 1 + Len(matches)) % Len(matches)
             ELSE activeMatchIndex = -1 /\ activeMatchIndex' = -1
       /\ (NextMatch \/ PrevMatch) => UNCHANGED <<matches, chatQuery>>]_vars

\* C12 witness: the active match is the last of three.
ActiveOnLastOfThree == Len(matches) = 3 /\ activeMatchIndex = 2

\* The active index after `count` calls of nextMatch, and of prevMatch, from
\* `current` on a match array of `length` > 0 entries that does not change.
RECURSIVE NextTimes(_, _, _)
NextTimes(count, current, length) ==
    IF count = 0 THEN current
    ELSE NextTimes(count - 1, nextIndex(current, length), length)

RECURSIVE PrevTimes(_, _, _)
PrevTimes(count, current, length) ==
    IF count = 0 THEN current
    ELSE PrevTimes(count - 1, prevIndex(current, length), length)

\* C13: on a non-empty match array of length n, n calls of nextMatch and n
\* calls of prevMatch each bring the active index back to where it was, from
\* the active index of the state and from every index k of the array.
NavigationCycles ==
    Len(matches) > 0 =>
        \A k \in (0..(Len(matches) - 1)) \cup {activeMatchIndex} :
            /\ NextTimes(Len(matches), k, Len(matches)) = k
            /\ PrevTimes(Len(matches), k, Len(matches)) = k

\* C13 witness: the active match is the middle one of three.
ActiveOnMiddleOfThree == Len(matches) = 3 /\ activeMatchIndex = 1

-----------------------------------------------------------------------------
(* Properties of the chat provider under the conversations provider        *)
(* (SpecChat).                                                             *)

\* C14: a step that changes the chat query or the selected message list
\* leaves the match array that the match effect computes from the new query
\* and the new message list, every match carrying the id of a message of the
\* new list, and the active index 0 if that array is non-empty and -1 if it
\* is empty, wherever the active index was before.
MatchesFollowInputs ==
    [][(\/ chatQuery' # chatQuery
        \/ selectedMessages(conversations', selectedIndex')
             # selectedMessages(conversations, selectedIndex))
          => /\ matches' = MatchEffectOf(chatQuery', conversations', selectedIndex').matches
             /\ \A i \in 1..Len(matches') :
                   \E m \in Range(selectedMessages(conversations', selectedIndex')) :
                       matches'[i].messageId = m.id
             /\ toLowerCase(trim(chatQuery')) = << >> => matches' = << >>
             /\ activeMatchIndex' = IF Len(matches') > 0 THEN 0 ELSE -1]_vars

\* C14 witness: a conversation is selected, the query has several matches in
\* it and the active match is the first.
SelectedWithMatches ==
    /\ selectedIndex # NullNumber
    /\ trim(chatQuery) # << >>
    /\ Len(matches) >= 2
    /\ activeMatchIndex = 0

-----------------------------------------------------------------------------
(* Properties of extractMessages (SpecExtract).                            *)

\* The mapping nodes of the selected conversation that carry a message, in
\* iteration order.
MessageNodes ==
    SelectSeq(IF "mapping" \in DOMAIN input THEN input.mapping ELSE << >>,
              LAMBDA node : "message" \in DOMAIN node)

\* createTime with a missing one read as 0.
TimeOrZero(m) == IF "createTime" \in DOMAIN m THEN m.createTime ELSE 0

\* C15: the extracted list is sorted non-decreasing by createTime with a
\* missing createTime read as 0, and it lists the message nodes of the
\* mapping along a one-to-one assignment that keeps messages of equal key in
\* the iteration order of the mapping.
ExtractedSortedStable ==
    \E out \in {extractMessages(input)} :
        /\ \A i \in 1..(Len(out) - 1) : TimeOrZero(out[i]) <= TimeOrZero(out[i + 1])
        /\ Len(out) = Len(MessageNodes)
        /\ \E p \in [1..Len(out) -> 1..Len(out)] :
              /\ \A i, j \in 1..Len(out) : p[i] = p[j] => i = j
              /\ \A i \in 1..Len(out) :
                    /\ out[i].id = MessageNodes[p[i]].id
                    /\ ("createTime" \in DOMAIN out[i])
                         = ("create_time" \in DOMAIN MessageNodes[p[i]].message)
                    /\ "createTime" \in DOMAIN out[i]
                         => out[i].createTime = MessageNodes[p[i]].message.create_time
              /\ \A i, j \in 1..Len(out) :
                    (i < j /\ TimeOrZero(out[i]) = TimeOrZero(out[j])) => p[i] < p[j]

\* C15 witness: the mapping lists a message of time 5, one without time and
\* one of time 0; the extracted list has the one without time first, and the
\* match effect found the query in all three.
MissingTimeSortedAsZero ==
    /\ "mapping" \in DOMAIN input
    /\ Len(MessageNodes) = 3
    /\ "create_time" \in DOMAIN MessageNodes[1].message
    /\ MessageNodes[1].message.create_time = 5
    /\ "create_time" \notin DOMAIN MessageNodes[2].message
    /\ "create_time" \in DOMAIN MessageNodes[3].message
    /\ MessageNodes[3].message.create_time = 0
    /\ Len(matches) = 3
    /\ [i \in 1..3 |-> matches[i].messageId] = <<MessageNodes[2].id, MessageNodes[3].id,
                                                  MessageNodes[1].id>>

\* C16: the extracted list has one message for every mapping node that
\* carries a message, whatever its text, and none for any other node.
ExtractedOnePerMessage ==
    \E out \in {extractMessages(input)} :
        /\ Len(out) = Cardinality({ i \in 1..(IF "mapping" \in DOMAIN input
                                             THEN Len(input.mapping) ELSE 0) :
                                      "message" \in DOMAIN input.mapping[i] })
        /\ { out[i].id : i \in 1..Len(out) }
             = { MessageNodes[i].id : i \in 1..Len(MessageNodes) }
        /\ Cardinality({ out[i].id : i \in 1..Len(out) }) = Len(out)

\* C16 witness: a mapping of a node without message, a message without text
\* and a message with text; two messages are extracted and the match effect
\* found the query in one.
EmptyTextExtracted ==
    /\ "mapping" \in DOMAIN input
    /\ Len(input.mapping) = 3
    /\ Len(MessageNodes) = 2
    /\ \E i \in 1..2 : messageText(MessageNodes[i].message) = << >>
    /\ Len(extractMessages(input)) = 2
    /\ Len(matches) = 1

-----------------------------------------------------------------------------
(* Properties of the file load (SpecLoad).                                 *)

\* A parsed value in which nothing is a conversation list: null, a
\* primitive, or an object that has no array under `conversations`, `items`
\* or `data` and no object value with one of the keys of a conversation.
NoConversationShape(value) ==
    \/ value.kind \in {"null", "number", "string"}
    \/ /\ value.kind = "object"
       /\ \A i \in 1..Len(value.props) :
             /\ ~(/\ value.props[i].key \in {"conversations", "items", "data"}
                  /\ value.props[i].value.kind = "array")
             /\ ~(/\ value.props[i].value.kind = "object"
                  /\ \E j \in 1..Len(value.props[i].value.props) :
                        value.props[i].value.props[j].key
                          \in {"mapping", "title", "id", "conversation_id"})

\* C17: normalizeConversations returns a list for the parsed value of every
\* file, the empty list for null, for a primitive and for an object in which
\* no value looks like a conversation; and a load whose normalized list is
\* empty ends with the error message set, the conversations empty, no
\* conversation selected and the loading flag off.
EmptyNormalizedLoadFails ==
    [][\A f \in AllFileIds :
          (FinishLoad(f) /\ "parsed" \in DOMAIN Files[f])
            => \E normalized \in {normalizeConversations(Files[f].parsed)} :
                  /\ normalized \in Seq({ConvDemo, ConvPlain, ConvBig})
                  /\ NoConversationShape(Files[f].parsed) => normalized = << >>
                  /\ normalized = << >>
                       => /\ error' = NoRecordsMessage
                          /\ conversations' = 0
                          /\ selectedIndex' = NullNumber
                          /\ loading' = FALSE]_vars

\* C17 witness: a document was loaded, and then the file holding null; the
\* error is set and nothing is loaded or selected.
NullFileReplacedDocument ==
    /\ fileName = "null.json"
    /\ pending = {}
    /\ searchBuildIdRef = 3
    /\ error = NoRecordsMessage
    /\ conversations = 0
    /\ selectedIndex = NullNumber

-----------------------------------------------------------------------------
(* Further properties of the index builder (Spec).                         *)

\* C18: whenever a step ends with the status ready, the published record
\* table is that of a complete build of the current conversations array and
\* no build of the current generation is left suspended; when the step is
\* the one that publishes (a build invoked in it, or the status was not
\* ready before), the published table holds the records of a single build of
\* the current conversations array, however many builds of it were invoked,
\* and if the table published before was built from the same conversations
\* the records are the same as before.
RebuildSameRecords ==
    [][status' = "ready"
          => /\ conversations' # 0
             /\ searchRecordsRef' = TableRef(conversations', Total(conversations'))
             /\ \A b \in builds' : b.buildId # searchBuildIdRef'
             /\ (status # "ready" \/ searchBuildIdRef' # searchBuildIdRef)
                  => /\ Stored(searchRecordsRef') = Built[conversations']
                     /\ searchRecordsRef.doc = conversations'
                          => Stored(searchRecordsRef') = Stored(searchRecordsRef)]_vars

\* C18 witness: the large document was loaded twice; the second build has
\* published while the first, superseded, is still suspended.
RebuiltOverSuspendedTwin ==
    /\ status = "ready"
    /\ conversations = 2
    /\ searchBuildIdRef = 3
    /\ \E b \in builds : b.doc = 2 /\ b.buildId = 2

-----------------------------------------------------------------------------
(* Properties of buildSnippet (SpecSnippet).                               *)

\* The offsets at which `needle` occurs in `text`, letter case ignored.
Occurrences(text, needle) ==
    { i \in 0..(Len(text) - Len(needle)) :
        \A j \in 1..Len(needle) : Lower(text[i + j]) = Lower(needle[j]) }

\* C19: when the text of the record contains the trimmed query, letter case
\* ignored, the snippet contains the query, letter case ignored.
SnippetContainsQuery ==
    \A r \in Range(results) :
        \E q \in {trim(query)} :
            Occurrences(r.record.text, q) # {} => Occurrences(r.snippet, q) # {}

-----------------------------------------------------------------------------
(* Properties of the record table (Spec).                                  *)

\* The mapping nodes of document k whose message has a text that is not
\* empty after joining and trimming: <<position of the conversation in the
\* array, node id, text>>.
TextNodes(k) ==
    UNION { { <<c - 1, Docs[k][c].mapping[j].id, messageText(Docs[k][c].mapping[j].message)>> :
                j \in { j \in 1..Len(Docs[k][c].mapping) :
                          /\ "message" \in DOMAIN Docs[k][c].mapping[j]
                          /\ messageText(Docs[k][c].mapping[j].message) # << >> } } :
            c \in 1..Len(Docs[k]) }

\* The records of a complete build of document k are, one to one, the nodes
\* of TextNodes(k), under pairwise distinct ids m-<conversationIndex>-<ordinal>.
ExactRecords(k) ==
    \E rs \in {Built[k]} :
        /\ { <<rs[i].conversationIndex, rs[i].messageId, rs[i].text>> : i \in 1..Len(rs) }
             = TextNodes(k)
        /\ Len(rs) = Cardinality(TextNodes(k))
        /\ Cardinality({ rs[i].id : i \in 1..Len(rs) }) = Len(rs)
        /\ \A i \in 1..Len(rs) :
              /\ rs[i].id = <<"m", rs[i].conversationIndex, i - 1>>
              /\ rs[i].conversationIndex \in 0..(Len(Docs[k]) - 1)
              /\ rs[i].text # << >>

ExactRecordsOf == << ExactRecords(1), ExactRecords(2) >>

\* C20: a published record table that is not the empty one holds every
\* record its build stored, and these are exactly one record for every
\* mapping node, over all conversations of the document, whose message text
\* is not empty after joining and trimming, under pairwise distinct ids, each
\* with the position of its conversation as conversationIndex; the table maps
\* the first and the last id to their records.
RecordPerTextNode ==
    searchRecordsRef.doc # 0 =>
        /\ searchRecordsRef.count = Len(Built[searchRecordsRef.doc])
        /\ ExactRecordsOf[searchRecordsRef.doc]
        /\ \A i \in {1, searchRecordsRef.count} :
              recordsGet(searchRecordsRef, <<"m", Built[searchRecordsRef.doc][i].conversationIndex,
                                             i - 1>>)
                = RecordRef(searchRecordsRef.doc, i)

\* C20 witness: the published table is that of the first document, whose
\* first conversation has a node without message and a message without
\* text: four records for six nodes.
FourRecordsOfSixNodes ==
    /\ status = "ready"
    /\ searchRecordsRef.doc = 1
    /\ Len(Stored(searchRecordsRef)) = 4
    /\ Len(Docs[1][1].mapping) + Len(Docs[1][2].mapping) = 6

-----------------------------------------------------------------------------
(* Properties of the yields of a build (Spec).                             *)

-----------------------------------------------------------------------------
(* Properties of the corpus query (Spec).                                  *)

\* The loop of the query effect on ids of which some do not resolve: the
\* first 200 hits of "B" in the complete index of the second document,
\* looked up in the table of a build of it that has stored 100 records.  The
\* results are the records of the ids that resolve, in the order of the ids.
UnresolvedIdsSkipped ==
    \E ids \in {search(TableRef(2, Total(2)), <<"B">>, 200)} :
    \E partial \in {TableRef(2, 100)} :
    \E pushed \in {nextResults(ids, partial, <<"B">>)} :
    \E resolving \in {SelectSeq(ids, LAMBDA id : id[3] < 100)} :
        /\ Len(ids) = 200
        /\ 0 < Len(resolving) /\ Len(resolving) < Len(ids)
        /\ Len(pushed) = Len(resolving)
        /\ \A j \in 1..Len(pushed) :
              /\ pushed[j].record.doc = 2
              /\ pushed[j].record.pos <= 100
              /\ RecordAt(pushed[j].record).id = resolving[j]

\* C22: the results shown are at most 200, every result's record is an entry
\* of the published record table, filed there under its id, and results that
\* are not empty were computed with the status ready and list, in the order
\* of the ids the published index returns for the trimmed query, the records
\* these ids resolve to; ids that do not resolve are skipped.
ResultsFromPublishedTable ==
    /\ Len(results) <= 200
    /\ \A i \in 1..Len(results) :
          /\ results[i].record.doc = searchRecordsRef.doc
          /\ results[i].record.pos \in 1..searchRecordsRef.count
          /\ recordsGet(searchRecordsRef, RecordAt(results[i].record).id)
               = results[i].record
    /\ results # << >>
         => /\ status = "ready"
            /\ \E ids \in {search(searchIndexRef, trim(query), 200)} :
                  /\ Len(ids) = Len(results)
                  /\ \A i \in 1..Len(ids) : RecordAt(results[i].record).id = ids[i]
    /\ UnresolvedIdsSkipped

\* C22 witness: the query "B" on the large document, of whose more than 1000
\* hits 200 are shown.
TwoHundredOfManyHits ==
    /\ status = "ready"
    /\ query = <<"B">>
    /\ Len(results) = 200
    /\ Len(HitTable[2][4]) > 1000

-----------------------------------------------------------------------------
(* Properties of the message count shown next to the status (Spec).        *)

\* C23: whenever the status is ready, the totalMessages exposed with it is
\* the number of records in the published record table.
TotalIsIndexedCount ==
    status = "ready" => totalMessages(conversations) = Len(Stored(searchRecordsRef))

-----------------------------------------------------------------------------
(* Further properties of the match effect (SpecMatch).                     *)

\* The offsets at which `needle` occurs in `haystack`.
OffsetsOf(haystack, needle) ==
    { o \in 0..(Len(haystack) - Len(needle)) :
        \A j \in 1..Len(needle) : haystack[o + j] = needle[j] }

-----------------------------------------------------------------------------
(* Properties of the highlighted text (SpecMatch).                         *)

\* The matches are in ascending start order, do not overlap and lie within
\* the text.
MatchesFitText(text, ms) ==
    /\ \A j \in 1..Len(ms) :
          0 <= ms[j].start /\ ms[j].start <= ms[j].end /\ ms[j].end <= Len(text)
    /\ \A j \in 1..(Len(ms) - 1) :
          ms[j].start < ms[j + 1].start /\ ms[j].end <= ms[j + 1].start

\* The texts of parts[1..n], concatenated.
RECURSIVE TextOfParts(_, _)
TextOfParts(parts, n) ==
    IF n = 0 THEN << >> ELSE TextOfParts(parts, n - 1) \o parts[n].text

\* C25: for every message shown whose matches are not empty, in ascending
\* start order, non-overlapping and within the text, the parts rendered
\* concatenate to the text shown; the parts marked as match are, in order,
\* the spans of the matches, each standing at its start offset; no part that
\* is not a match is empty; and a match part is active exactly when the
\* active match handed down has its messageId and start.
HighlightsPartitionText ==
    \A p \in 1..Len(input) :
        \E text \in {IF input[p].text = << >> THEN EmDash ELSE input[p].text} :
        \E ms \in {matchesByMessageId(matches, input[p].id)} :
        \E active \in {messageActiveMatch(matches, activeMatchIndex, input[p].id)} :
            (Len(ms) > 0 /\ MatchesFitText(text, ms)) =>
                \E parts \in {ChatMessage(input[p])} :
                \E at \in {SelectSeq([i \in 1..Len(parts) |-> i],
                                     LAMBDA i : parts[i].match)} :
                    /\ TextOfParts(parts, Len(parts)) = text
                    /\ Len(at) = Len(ms)
                    /\ \A j \in 1..Len(ms) :
                          /\ parts[at[j]].text = SubSeq(text, ms[j].start + 1, ms[j].end)
                          /\ Len(TextOfParts(parts, at[j] - 1)) = ms[j].start
                          /\ parts[at[j]].active
                               <=> /\ active # Null
                                   /\ active.messageId = ms[j].messageId
                                   /\ active.start = ms[j].start
                    /\ \A i \in 1..Len(parts) :
                          /\ ~parts[i].match => parts[i].text # << >> /\ ~parts[i].active

\* C25 witness: the text "a a" with the query "a" and the second match
\* active: a match part, the space between, the active match part.
ActiveSecondHighlight ==
    /\ Len(input) = 1
    /\ input[1].text = <<"a", " ", "a">>
    /\ activeMatchIndex = 1
    /\ ChatMessage(input[1])
         = << [text |-> <<"a">>, match |-> TRUE, active |-> FALSE],
              [text |-> <<" ">>, match |-> FALSE, active |-> FALSE],
              [text |-> <<"a">>, match |-> TRUE, active |-> TRUE] >>

-----------------------------------------------------------------------------
(* Properties of the results after a load (Spec).                          *)

\* C26: whenever the status is ready and the trimmed query is not empty, the
\* results are those of the query evaluated against the published index and
\* record table.
ResultsFollowPublishedIndex ==
    \E trimmed \in {trim(query)} :
        (status = "ready" /\ trimmed # << >>)
          => results = nextResults(search(searchIndexRef, trimmed, 200),
                                   searchRecordsRef, trimmed)

-----------------------------------------------------------------------------
(* Properties of the index against the conversations array (Spec).         *)

\* The record was built from a mapping node of the conversation at its
\* conversationIndex in the array under key k.
BuiltFromConversationOf(k, record) ==
    /\ record.conversationIndex \in 0..(Len(Conversations(k)) - 1)
    /\ \E conversation \in {Conversations(k)[record.conversationIndex + 1]} :
          /\ record.title = (IF "title" \in DOMAIN conversation THEN conversation.title
                             ELSE Untitled)
          /\ \E j \in 1..Len(conversation.mapping) :
                /\ conversation.mapping[j].id = record.messageId
                /\ "message" \in DOMAIN conversation.mapping[j]
                /\ messageText(conversation.mapping[j].message) = record.text

\* C27: whenever the status is ready, the published index and record table
\* are those of a complete build of the current conversations array; the
\* record of every result shown is a record of that table, its
\* conversationIndex is a position of the current array and the conversation
\* there is the one the record was built from (it carries the record's
\* title, and for the first and the last result also the node and the text
\* of the record); and a step that selects the conversationIndex of a result
\* makes that conversation the selected one.
ReadyIndexOfCurrentConversations ==
    [][/\ status = "ready"
            => /\ conversations # 0
               /\ searchIndexRef = TableRef(conversations, Total(conversations))
               /\ searchRecordsRef = TableRef(conversations, Total(conversations))
       /\ \A i \in 1..Len(results) :
             \E record \in {RecordAt(results[i].record)} :
                 /\ status = "ready"
                 /\ results[i].record.doc = conversations
                 /\ i \in {1, Len(results)} => BuiltFromConversationOf(conversations, record)
                 /\ record.conversationIndex \in 0..(Len(Conversations(conversations)) - 1)
                 /\ record.title
                      = (IF "title" \in DOMAIN Conversations(conversations)[record.conversationIndex + 1]
                         THEN Conversations(conversations)[record.conversationIndex + 1].title
                         ELSE Untitled)
       /\ \A index \in {RecordAt(results[i].record).conversationIndex : i \in 1..Len(results)} :
             (selectedIndex' = index /\ SelectRow(index))
               => selectedConversation(conversations', selectedIndex')
                    = Conversations(conversations)[index + 1]
       /\ status' = "ready"
            => /\ conversations' # 0
               /\ searchRecordsRef' = TableRef(conversations', Total(conversations'))]_vars

\* C27 witness: the second conversation of the large document is selected
\* while results built from it are shown.
SelectedFromResult ==
    /\ status = "ready"
    /\ conversations = 2
    /\ selectedIndex = 1
    /\ Len(results) = 200
    /\ RecordAt(results[200].record).conversationIndex = 1
    /\ selectedConversation(conversations, selectedIndex) = ConvBig

-----------------------------------------------------------------------------
(* Properties of the active match (SpecChat).                              *)

\* C28: after every input (a chat query, a selection, a load, a clear,
\* next, prev) and its effects, the active match index is -1 exactly when
\* there are no matches, and otherwise a position of the match array.
ActiveIndexInRange ==
    /\ activeMatchIndex = -1 <=> matches = << >>
    /\ matches # << >> => 0 <= activeMatchIndex /\ activeMatchIndex < Len(matches)

\* C28 witness: a conversation is selected and prev() has wrapped from the
\* first of several matches to the last.
WrappedToLastMatch ==
    /\ selectedIndex # NullNumber
    /\ Len(matches) >= 2
    /\ activeMatchIndex = Len(matches) - 1

-----------------------------------------------------------------------------
(* Properties of overlapping file loads (SpecLoad).                        *)

\* C29: the loading flag is true whenever a load is in flight, and when no
\* load is in flight the conversations shown are those of the file whose
\* name is displayed, the file of the load started last.
LastStartedLoadWins ==
    /\ pending # {} => loading
    /\ pending = {}
         => \A f \in AllFileIds :
               Files[f].name = fileName
                 => conversations = (IF LoadTable[f].ok THEN LoadTable[f].conversations
                                     ELSE 0)

-----------------------------------------------------------------------------
(* Properties of a failed load and of clear (Spec).                        *)

\* C30: a load that fails, by a JSON syntax error or for want of
\* conversation records, leaves its error message set, the conversations
\* array empty, nothing selected, loading false, the status idle and the
\* published index, the published record table and the results empty; clear
\* leaves the same with the error unset.
FailedLoadEmptiesAll ==
    [][/\ \A f \in FileIds :
             (FinishLoad(f) /\ ~LoadTable[f].ok)
               => /\ error' = LoadTable[f].message
                  /\ error' # NullString
                  /\ conversations' = 0
                  /\ selectedIndex' = NullNumber
                  /\ loading' = FALSE
                  /\ status' = "idle"
                  /\ searchIndexRef' = EmptyTable
                  /\ searchRecordsRef' = EmptyTable
                  /\ Stored(searchRecordsRef') = << >>
                  /\ results' = << >>
       /\ Clear
            => /\ error' = NullString
               /\ conversations' = 0
               /\ selectedIndex' = NullNumber
               /\ status' = "idle"
               /\ searchIndexRef' = EmptyTable
               /\ searchRecordsRef' = EmptyTable
               /\ Stored(searchRecordsRef') = << >>
               /\ results' = << >>]_vars

\* C30 witness: a document was loaded and queried, and then a file that is
\* not JSON: the error is set and the document, the index and the results
\* are gone.
SyntaxErrorReplacedDocument ==
    /\ fileName = "bad.json"
    /\ pending = {}
    /\ searchBuildIdRef = 3
    /\ trim(query) # << >>
    /\ error = "Unexpected token"
    /\ conversations = 0
    /\ status = "idle"
    /\ searchRecordsRef = EmptyTable
    /\ results = << >>

====
